---- MODULE Spec2Model ----
(***************************************************************************)
(* State-machine model of the MAITRI AI service: the emotion inference     *)
(* orchestrator (EmotionDetectionService), the audio service               *)
(* (AudioProcessingService) and the FastAPI wiring of app.py (startup,     *)
(* /emotion/detect, /emotion/multimodal, /models/reload).                  *)
(*                                                                         *)
(* All endpoints are `async def` handlers without a suspending await, so   *)
(* the event loop runs one handler at a time; the positions inside a       *)
(* handler are kept (pc, loadpc) so that the order of its stages can be    *)
(* observed.  Probabilities are per-mille integers (0.5 is 500).           *)
(***************************************************************************)
EXTENDS Integers, Sequences, FiniteSets, TLC

(* ------------------------------ bounds --------------------------------- *)
\* number of /models/reload calls explored
MaxReloads == 1

(* ----------------------------- constants ------------------------------- *)
EMOTIONS == <<"angry", "disgust", "fear", "happy", "neutral", "sad", "surprise">>

\* AudioProcessingService.EMOTIONS
AUDIO_EMOTIONS == <<"angry", "disgust", "fear", "happy", "neutral", "sad", "surprise">>

\* classifier handles: EmotionDetectionService.model_status keys and the
\* AudioProcessingService model
Handles == {"emotion_cnn", "multimodal_fusion", "audio_emotion_cnn"}

\* padding = 20 in _preprocess_face_for_emotion
padding == 20

\* what the file system holds under models/<name>.pth
FileStates == {"absent", "ok", "corrupt"}

(* ------------------------------ inputs --------------------------------- *)
\* image_data payloads a request may carry.  "None" and "empty" are the
\* falsy payloads (None, ""); "malformed" does not decode; the others decode
\* to a W x H pixel grid on which the face mesh reports `mesh`:
\* "noface" (no landmarks), "raises" (face_mesh.process throws) or "face"
\* with the landmark envelope `points` (pixel coordinates landmark.x * w).
ImageTable ==
  [ None      |-> [decodes |-> FALSE, W |-> 0,   H |-> 0,   mesh |-> "noface", points |-> <<>>, pix |-> 0],
    empty     |-> [decodes |-> FALSE, W |-> 0,   H |-> 0,   mesh |-> "noface", points |-> <<>>, pix |-> 0],
    malformed |-> [decodes |-> FALSE, W |-> 0,   H |-> 0,   mesh |-> "noface", points |-> <<>>, pix |-> 0],
    noface    |-> [decodes |-> TRUE,  W |-> 100, H |-> 100, mesh |-> "noface", points |-> <<>>, pix |-> 3],
    meshfail  |-> [decodes |-> TRUE,  W |-> 100, H |-> 100, mesh |-> "raises", points |-> <<>>, pix |-> 4],
    faceA     |-> [decodes |-> TRUE,  W |-> 100, H |-> 100, mesh |-> "face",
                   points |-> << <<30, 30>>, <<70, 80>> >>, pix |-> 1],
    offframe  |-> [decodes |-> TRUE,  W |-> 100, H |-> 100, mesh |-> "face",
                   points |-> << <<125, 40>>, <<150, 70>> >>, pix |-> 5] ]

Images == DOMAIN ImageTable

\* audio_data payloads: falsy, undecodable, or a decodable clip with the
\* sample content `pcm` (0 is silence)
AudioTable ==
  [ None      |-> [decodes |-> FALSE, pcm |-> 0],
    empty     |-> [decodes |-> FALSE, pcm |-> 0],
    malformed |-> [decodes |-> FALSE, pcm |-> 0],
    silent    |-> [decodes |-> TRUE,  pcm |-> 0],
    clipA     |-> [decodes |-> TRUE,  pcm |-> 1] ]

Audios == DOMAIN AudioTable

\* Python truthiness of an Optional[str] payload (`if not image_data`)
Falsy(payload) == payload \in {"None", "empty"}

\* operations of the core: the two orchestrator entry points behind
\* /emotion/detect and /emotion/multimodal, and the audio service's own
\* detect_emotion_from_audio (a service method no endpoint is wired to)
Ops == {"detect_emotion", "detect_multimodal_emotion", "detect_emotion_from_audio"}

(* ------------------------- classifier handles -------------------------- *)
\* a handle that holds no classifier (None)
NoModel == [weights |-> "none", eval |-> FALSE, ver |-> 0]

\* EmotionCNN(...) / MultimodalFusionNet(...) / AudioEmotionCNN(...): a new
\* module with freshly initialised parameters, in training mode
FreshModel(old) == [weights |-> "fresh", eval |-> FALSE, ver |-> old.ver + 1]

\* load_state_dict(torch.load(path)) on a readable file
WithWeights(m) == [m EXCEPT !.weights = "trained"]

\* model.to(device); model.eval()
EvalMode(m) == [m EXCEPT !.eval = TRUE]

\* the value of 0/0 in floating point: what (log_mel_spec - mean) / np.std
\* yields for a clip whose spectrogram is constant.  It is none of the numbers
\* a tensor or a probability can otherwise hold.
NaN == -999999

\* F.softmax output that puts the mass on label k
Peaked(k) == [i \in 1..Len(EMOTIONS) |-> IF i = k THEN 400 ELSE 100]

\* the label a classifier's parameters favour for the input x
Favoured(m, x) == ((x + m.ver + (IF m.weights = "trained" THEN 3 ELSE 0)) % Len(EMOTIONS)) + 1

\* model(x): the distributions a forward pass can return.  In eval mode the
\* network is a function of its parameters and input; in training mode the
\* Dropout layers are active and the output is random.
\* A tensor holding not-a-number entries propagates through every layer and
\* the softmax: every entry of the output is not-a-number too.
Forward(m, x) ==
  IF x = NaN THEN {[i \in 1..Len(EMOTIONS) |-> NaN]}
  ELSE IF m.eval THEN {Peaked(Favoured(m, x))}
  ELSE {Peaked(k) : k \in 1..Len(EMOTIONS)}

\* {labels[i]: float(probabilities[i]) for i in range(len(labels))}
ProbDict(labels, p) ==
  [l \in {labels[i] : i \in 1..Len(labels)} |->
     p[CHOOSE i \in 1..Len(labels) : labels[i] = l /\ \A j \in (i + 1)..Len(labels) : labels[j] # l]]

\* a slip of ArgMax: the last greatest entry wins
ArgMaxLast(p) ==
  CHOOSE i \in 1..Len(p) :
    /\ \A j \in 1..Len(p) : p[j] <= p[i]
    /\ \A j \in (i + 1)..Len(p) : p[j] < p[i]

\* np.argmax: index of the first greatest entry
ArgMax(p) ==
  CHOOSE i \in 1..Len(p) :
    /\ \A j \in 1..Len(p) : p[j] <= p[i]
    /\ \A j \in 1..(i - 1) : p[j] < p[i]

(* ------------------------------- state --------------------------------- *)
VARIABLES
  ctl,              \* app lifecycle: "boot", "startup", "up", "exited", "reload"
  loadpc,           \* the handle whose weight loading runs next, or "none"
  emotion_service,  \* app.py global emotion_service is not None
  audio_service,    \* app.py global audio_service is not None
  face_mesh,        \* EmotionDetectionService.face_mesh is not None
  models,           \* emotion_model, multimodal_model, audio_model
  model_status,     \* ModelStatus.status of each handle
  files,            \* the weight artifacts on disk
  nreload,          \* /models/reload calls made so far
  reloaded,         \* handles whose loading the last reload re-executed
  reload_response,  \* outcome of the last /models/reload: "none", "success", "error"
  req,              \* the inference request being served
  pc,               \* its position
  trace,            \* the components it has invoked, in order
  raised,           \* the component of the request in which an exception was raised
  landmarks,        \* local `landmarks` of the request (<<>> is None)
  tensor,           \* local fixed-shape classifier input of the request
  result,           \* what the request returned to its caller
  calc              \* a function of the pipeline applied on its own: input and output

vars == <<ctl, loadpc, emotion_service, audio_service, face_mesh, models,
          model_status, files, nreload, reloaded, reload_response,
          req, pc, trace, raised, landmarks, tensor, result, calc>>

lifecycleVars == <<ctl, loadpc, emotion_service, audio_service, face_mesh,
                   models, model_status, nreload, reloaded, reload_response>>

requestVars == <<req, pc, trace, raised, landmarks, tensor, result>>

\* the service state apart from the classifier handles
serviceVars == <<ctl, loadpc, emotion_service, audio_service, face_mesh,
                 model_status, nreload, reloaded, reload_response>>

emotion_model == models["emotion_cnn"]
multimodal_model == models["multimodal_fusion"]
audio_model == models["audio_emotion_cnn"]

Terminal == {"Done", "Failed"}

\* no request is being served
Quiescent == pc \in {"idle"} \cup Terminal

NoRequest == [op |-> "none", image |-> "None", audio |-> "None"]

NoResult ==
  [kind |-> "none", emotion |-> "", confidence |-> 0, source |-> "",
   facial_landmarks |-> <<>>, audio_features |-> 0, probabilities |-> <<>>,
   error |-> "", detail |-> "", http |-> 0]

\* EmotionDetectionResponse(...) returned by the orchestrator and sent by
\* the endpoint with status 200
Verdict(emotion, confidence, source, lms) ==
  [NoResult EXCEPT !.kind = "verdict", !.emotion = emotion,
                   !.confidence = confidence, !.source = source,
                   !.facial_landmarks = lms, !.http = 200]

\* an exception leaving the orchestrator; the endpoint turns it into
\* HTTPException(status_code=500, detail="... failed: <message>")
Error(type, detail) ==
  [NoResult EXCEPT !.kind = "error", !.error = type, !.detail = detail, !.http = 500]

\* no function is being applied on its own
NoCalc == [fn |-> "none"]

Init ==
  /\ ctl = "boot"
  /\ loadpc = "none"
  /\ emotion_service = FALSE
  /\ audio_service = FALSE
  /\ face_mesh = FALSE
  /\ models = [h \in Handles |-> NoModel]
  /\ model_status = [h \in Handles |-> "not_loaded"]
  /\ files \in [Handles -> FileStates]
  /\ nreload = 0
  /\ reloaded = {}
  /\ reload_response = "none"
  /\ req = NoRequest
  /\ pc = "idle"
  /\ trace = <<>>
  /\ raised = "none"
  /\ landmarks = <<>>
  /\ tensor = 0
  /\ result = NoResult
  /\ calc = NoCalc

(* ----------------------- startup and model loading --------------------- *)
\* the weight file of a handle is replaced, removed or damaged on disk
\* while no handler runs (Init covers the file states before startup)
SetWeights(h, f) ==
  /\ ctl = "up"
  /\ pc = "idle"
  /\ files[h] # f
  /\ files' = [files EXCEPT ![h] = f]
  /\ reload_response' = "none"
  /\ reloaded' = {}
  /\ UNCHANGED <<ctl, loadpc, emotion_service, audio_service, face_mesh,
                 models, model_status, nreload>>
  /\ UNCHANGED <<requestVars, calc>>

\* startup_event up to the first model load: the emotion service is
\* constructed and EmotionDetectionService.initialize sets up MediaPipe
StartupEvent ==
  /\ ctl = "boot"
  /\ ctl' = "startup"
  /\ emotion_service' = TRUE
  /\ face_mesh' = TRUE
  /\ loadpc' = "emotion_cnn"
  /\ UNCHANGED <<audio_service, models, model_status, files, nreload,
                 reloaded, reload_response>>
  /\ UNCHANGED <<requestVars, calc>>

\* a slip of LoadFails: FileNotFoundError is not caught either
LoadFailsSlip(h) == files[h] # "ok"

\* torch.load raises something other than FileNotFoundError
LoadFails(h) == files[h] = "corrupt"

\* the handle after the body of a load routine: a new module replaces the
\* old one first; a missing file leaves it freshly initialised; eval() is
\* reached only when load_state_dict did not raise
LoadedHandle(h) ==
  IF LoadFails(h) THEN FreshModel(models[h])
  ELSE IF files[h] = "ok" THEN EvalMode(WithWeights(FreshModel(models[h])))
  ELSE EvalMode(FreshModel(models[h]))

\* the status a load routine leaves
LoadedStatus(h) == IF LoadFails(h) THEN "error" ELSE "loaded"

\* common body of _load_emotion_model, _load_multimodal_model and
\* AudioProcessingService.initialize
LoadModel(h) ==
  /\ loadpc = h
  /\ models' = [models EXCEPT ![h] = LoadedHandle(h)]
  /\ model_status' = [model_status EXCEPT ![h] = LoadedStatus(h)]
  /\ reloaded' = IF ctl = "reload" THEN reloaded \cup {h} ELSE reloaded

\* the exception of a load routine leaves its caller: startup_event
\* re-raises it (the ASGI startup fails and the server never serves),
\* /models/reload answers 500
LoadRaised ==
  /\ loadpc' = "none"
  /\ ctl' = IF ctl = "startup" THEN "exited" ELSE "up"
  /\ reload_response' = IF ctl = "reload" THEN "error" ELSE reload_response
  /\ UNCHANGED audio_service

\* the handle that is loaded after h (initialize / reload_models order)
NextLoad(h) ==
  CASE h = "emotion_cnn" -> "multimodal_fusion"
    [] h = "multimodal_fusion" -> "audio_emotion_cnn"
    [] OTHER -> "none"

\* the load routine returned: the caller goes on with the next handle, and
\* after the last one startup or reload completes
LoadReturned(h) ==
  /\ loadpc' = NextLoad(h)
  /\ ctl' = IF NextLoad(h) = "none" THEN "up" ELSE ctl
  /\ reload_response' = IF NextLoad(h) = "none" /\ ctl = "reload" THEN "success"
                        ELSE reload_response
  /\ audio_service' = (audio_service \/ h = "multimodal_fusion")

_load_emotion_model ==
  /\ LoadModel("emotion_cnn")
  /\ IF LoadFails("emotion_cnn") THEN LoadRaised ELSE LoadReturned("emotion_cnn")
  /\ UNCHANGED <<emotion_service, face_mesh, files, nreload>>
  /\ UNCHANGED <<requestVars, calc>>

_load_multimodal_model ==
  /\ LoadModel("multimodal_fusion")
  /\ IF LoadFails("multimodal_fusion") THEN LoadRaised
     ELSE LoadReturned("multimodal_fusion")
  /\ UNCHANGED <<emotion_service, face_mesh, files, nreload>>
  /\ UNCHANGED <<requestVars, calc>>

\* AudioProcessingService.initialize (also its reload_models)
audio_initialize ==
  /\ LoadModel("audio_emotion_cnn")
  /\ IF LoadFails("audio_emotion_cnn") THEN LoadRaised
     ELSE LoadReturned("audio_emotion_cnn")
  /\ UNCHANGED <<emotion_service, face_mesh, files, nreload>>
  /\ UNCHANGED <<requestVars, calc>>

\* POST /models/reload: emotion_service.reload_models(), then
\* audio_service.reload_models(); the first exception ends the handler
reload_models ==
  /\ ctl = "up"
  /\ Quiescent
  /\ nreload < MaxReloads
  /\ ctl' = "reload"
  /\ loadpc' = "emotion_cnn"
  /\ nreload' = nreload + 1
  /\ reloaded' = {}
  /\ reload_response' = "none"
  /\ req' = NoRequest
  /\ pc' = "idle"
  /\ trace' = <<>>
  /\ raised' = "none"
  /\ landmarks' = <<>>
  /\ tensor' = 0
  /\ result' = NoResult
  /\ UNCHANGED <<emotion_service, audio_service, face_mesh, models,
                 model_status, files, calc>>

(* --------------------------- inference requests ------------------------ *)
\* a request arrives at /emotion/detect or /emotion/multimodal (each with
\* an EmotionDetectionRequest: both payloads optional), or the audio
\* service is asked to score a clip
Submit(op, img, aud) ==
  /\ ctl = "up"
  /\ Quiescent
  /\ emotion_service /\ audio_service
  /\ op = "detect_emotion_from_audio" => img = "None"
  /\ req' = [op |-> op, image |-> img, audio |-> aud]
  /\ pc' = "AwaitingInput"
  /\ trace' = <<>>
  /\ raised' = "none"
  /\ landmarks' = <<>>
  /\ tensor' = 0
  /\ result' = NoResult
  /\ UNCHANGED <<ctl, loadpc, emotion_service, audio_service, face_mesh,
                 models, model_status, files, nreload, reloaded, reload_response, calc>>

\* the request ends with an exception
Fail(component, type, detail) ==
  /\ pc' = "Failed"
  /\ raised' = component
  /\ result' = Error(type, detail)

\* a slip of Return: the handler starts over instead of returning
ReturnSlip(r) ==
  /\ pc' = "AwaitingInput"
  /\ result' = r

\* the request ends with a response
Return(r) ==
  /\ pc' = "Done"
  /\ result' = r

\* a slip of RequiresImage: the image guard is missing
RequiresImageSlip(op) == FALSE

\* `if not image_data: raise ValueError(...)` of detect_emotion; the other
\* two operations go straight to decoding
RequiresImage(op) == op = "detect_emotion"

BeginRequest ==
  /\ pc = "AwaitingInput"
  /\ IF RequiresImage(req.op) /\ Falsy(req.image)
     THEN Fail("input", "ValueError", "Image data is required for emotion detection")
     ELSE /\ pc' = "Decoding"
          /\ UNCHANGED <<raised, result>>
  /\ UNCHANGED <<req, trace, landmarks, tensor, files>>
  /\ UNCHANGED <<lifecycleVars, calc>>

\* _decode_base64_image: any failure becomes ValueError("Invalid image data")
DecodeImage ==
  /\ pc = "Decoding"
  /\ req.op \in {"detect_emotion", "detect_multimodal_emotion"}
  /\ trace' = Append(trace, "decode_image")
  /\ IF ImageTable[req.image].decodes
     THEN /\ pc' = "Landmarks"
          /\ UNCHANGED <<raised, result>>
     ELSE Fail("decode", "ValueError", "Invalid image data")
  /\ UNCHANGED <<req, landmarks, tensor, files>>
  /\ UNCHANGED <<lifecycleVars, calc>>

\* a slip of NoFaceSource: the no-face verdict always says "audio"
NoFaceSourceSlip(op) == "audio"

\* the verdict both orchestrator entry points return when `not landmarks`
NoFaceSource(op) == IF op = "detect_emotion" THEN "video" ELSE "audio"

\* face_mesh.process raises: on the image, or because face_mesh is None
MeshRaises(img) == ImageTable[img].mesh = "raises" \/ ~face_mesh

\* a slip of FaceFound: an exception inside the extractor is not noticed
FaceFoundSlip(img) == ImageTable[img].mesh = "face"

\* _extract_facial_landmarks returns a FacialLandmarks
FaceFound(img) == ImageTable[img].mesh = "face" /\ ~MeshRaises(img)

\* a slip of AfterLandmarks: the face preprocessor is skipped
AfterLandmarksSlip(op) == "Classifying"

\* the position after the landmarks of a face were found
AfterLandmarks(op) == IF op = "detect_emotion" THEN "Preprocess" ELSE "Classifying"

\* _extract_facial_landmarks and the `if not landmarks` branch of its caller;
\* an exception inside the extractor is logged and None is returned
ExtractLandmarks ==
  /\ pc = "Landmarks"
  /\ trace' = Append(trace, "extract_facial_landmarks")
  /\ raised' = IF MeshRaises(req.image) THEN "landmarks" ELSE raised
  /\ IF FaceFound(req.image)
     THEN /\ landmarks' = ImageTable[req.image].points
          /\ pc' = AfterLandmarks(req.op)
          /\ UNCHANGED result
     ELSE /\ landmarks' = <<>>
          /\ Return(Verdict("neutral", 500, NoFaceSource(req.op), <<>>))
  /\ UNCHANGED <<req, tensor, files>>
  /\ UNCHANGED <<lifecycleVars, calc>>

Min(a, b) == IF a < b THEN a ELSE b
Max(a, b) == IF a > b THEN a ELSE b

SetMin(S) == CHOOSE x \in S : \A y \in S : x <= y
SetMax(S) == CHOOSE x \in S : \A y \in S : x >= y

\* bounding box of the landmark points: min/max envelope
BoundingBox(points) ==
  LET xs == {points[i][1] : i \in 1..Len(points)}
      ys == {points[i][2] : i \in 1..Len(points)}
  IN [x |-> SetMin(xs), y |-> SetMin(ys),
      width |-> SetMax(xs) - SetMin(xs), height |-> SetMax(ys) - SetMin(ys)]

\* a slip of CropRect: the padded size is not clipped to the image
CropRectSlip(W, H, bbox) ==
  LET x == Max(0, bbox.x - padding)
      y == Max(0, bbox.y - padding)
  IN [x |-> x, y |-> y,
      w |-> bbox.width + 2 * padding,
      h |-> bbox.height + 2 * padding]

\* the padded crop rectangle of _preprocess_face_for_emotion
CropRect(W, H, bbox) ==
  LET x == Max(0, bbox.x - padding)
      y == Max(0, bbox.y - padding)
  IN [x |-> x, y |-> y,
      w |-> Min(W - x, bbox.width + 2 * padding),
      h |-> Min(H - y, bbox.height + 2 * padding)]

\* image[y:y+h, x:x+w] is empty, and cv2.resize raises on an empty source
EmptyCrop(r) == r.w <= 0 \/ r.h <= 0

\* _preprocess_face_for_emotion: crop, resize to 48x48, grayscale, scale
PreprocessFace ==
  /\ pc = "Preprocess"
  /\ trace' = Append(trace, "preprocess_face")
  /\ LET im == ImageTable[req.image]
         r == CropRect(im.W, im.H, BoundingBox(landmarks))
     IN IF EmptyCrop(r)
        THEN /\ Fail("preprocess", "cv2.error", "resize: empty source")
             /\ UNCHANGED tensor
        ELSE /\ tensor' = im.pix
             /\ pc' = "Classifying"
             /\ UNCHANGED <<raised, result>>
  /\ UNCHANGED <<req, landmarks, files>>
  /\ UNCHANGED <<lifecycleVars, calc>>

\* a slip of Scored: the forward pass re-initialises the module it ran
ScoredSlip(m) == [m EXCEPT !.weights = "fresh", !.eval = FALSE]

\* the module after `with torch.no_grad(): model(x)`: a forward pass of
\* these networks (convolutions, linear layers, Dropout, no buffers) writes
\* nothing to the module
Scored(m) == m

\* _classify_emotion and the response detect_emotion builds from it
ClassifyVisual ==
  /\ pc = "Classifying"
  /\ req.op = "detect_emotion"
  /\ trace' = Append(trace, "classify_visual")
  /\ \E p \in Forward(emotion_model, tensor) :
       Return(Verdict(EMOTIONS[ArgMax(p)], p[ArgMax(p)], "video", landmarks))
  /\ models' = [models EXCEPT !["emotion_cnn"] = Scored(emotion_model)]
  /\ UNCHANGED <<req, raised, landmarks, tensor, files>>
  /\ UNCHANGED <<serviceVars, calc>>

\* torch.randn placeholders for the visual and audio embeddings
Randn == 0..1

\* the fusion branch of detect_multimodal_emotion: the embeddings are
\* random placeholders, not derived from the image or the audio
ClassifyFusion ==
  /\ pc = "Classifying"
  /\ req.op = "detect_multimodal_emotion"
  /\ trace' = Append(trace, "classify_fusion")
  /\ \E visual_features \in Randn, audio_features \in Randn :
       /\ tensor' = visual_features + audio_features
       /\ \E p \in Forward(multimodal_model, visual_features + audio_features) :
            Return(Verdict(EMOTIONS[ArgMax(p)], p[ArgMax(p)], "multimodal", landmarks))
  /\ models' = [models EXCEPT !["multimodal_fusion"] = Scored(multimodal_model)]
  /\ UNCHANGED <<req, raised, landmarks, files>>
  /\ UNCHANGED <<serviceVars, calc>>

\* _decode_base64_audio: any failure becomes ValueError("Invalid audio data")
DecodeAudio ==
  /\ pc = "Decoding"
  /\ req.op = "detect_emotion_from_audio"
  /\ trace' = Append(trace, "decode_audio")
  /\ IF AudioTable[req.audio].decodes
     THEN /\ pc' = "AudioFeatures"
          /\ UNCHANGED <<raised, result>>
     ELSE Fail("decode", "ValueError", "Invalid audio data")
  /\ UNCHANGED <<req, landmarks, tensor, files>>
  /\ UNCHANGED <<lifecycleVars, calc>>

\* extract_audio_features
ExtractAudioFeatures ==
  /\ pc = "AudioFeatures"
  /\ trace' = Append(trace, "extract_audio_features")
  /\ pc' = "Spectrogram"
  /\ UNCHANGED <<req, raised, landmarks, tensor, result, files>>
  /\ UNCHANGED <<lifecycleVars, calc>>

\* _create_spectrogram: the spectrogram of silence is constant and its
\* normalisation (x - mean) / std is 0/0 in every entry
CreateSpectrogram ==
  /\ pc = "Spectrogram"
  /\ trace' = Append(trace, "create_spectrogram")
  /\ tensor' = (IF AudioTable[req.audio].pcm = 0 THEN NaN ELSE AudioTable[req.audio].pcm)
  /\ pc' = "Classifying"
  /\ UNCHANGED <<req, raised, landmarks, result, files>>
  /\ UNCHANGED <<lifecycleVars, calc>>

\* the audio classifier call and the dict detect_emotion_from_audio returns
ClassifyAudio ==
  /\ pc = "Classifying"
  /\ req.op = "detect_emotion_from_audio"
  /\ trace' = Append(trace, "classify_audio")
  /\ \E p \in Forward(audio_model, tensor) :
       Return([NoResult EXCEPT !.kind = "verdict", !.emotion = AUDIO_EMOTIONS[ArgMax(p)],
                               !.confidence = p[ArgMax(p)],
                               !.audio_features = AudioTable[req.audio].pcm,
                               !.probabilities = ProbDict(AUDIO_EMOTIONS, p)])
  /\ models' = [models EXCEPT !["audio_emotion_cnn"] = Scored(audio_model)]
  /\ UNCHANGED <<req, raised, landmarks, tensor, files>>
  /\ UNCHANGED <<serviceVars, calc>>

(* ---------------------------- specification ---------------------------- *)
Next ==
  \/ \E h \in Handles, f \in FileStates : SetWeights(h, f)
  \/ StartupEvent
  \/ _load_emotion_model
  \/ _load_multimodal_model
  \/ audio_initialize
  \/ reload_models
  \/ \E op \in Ops, img \in Images, aud \in Audios : Submit(op, img, aud)
  \/ BeginRequest
  \/ DecodeImage
  \/ ExtractLandmarks
  \/ PreprocessFace
  \/ ClassifyVisual
  \/ ClassifyFusion
  \/ DecodeAudio
  \/ ExtractAudioFeatures
  \/ CreateSpectrogram
  \/ ClassifyAudio

Spec == Init /\ [][Next]_vars

TypeOK ==
  /\ ctl \in {"boot", "startup", "up", "exited", "reload"}
  /\ loadpc \in Handles \cup {"none"}
  /\ model_status \in [Handles -> {"not_loaded", "loading", "loaded", "error"}]
  /\ files \in [Handles -> FileStates]
  /\ nreload \in 0..MaxReloads
  /\ reloaded \subseteq Handles
  /\ req.op \in Ops \cup {"none"}
  /\ result.kind \in {"none", "verdict", "error"}

(* ------------------------------- claims -------------------------------- *)
\* the request is one of the two orchestrator operations
Orchestrated == req.op \in {"detect_emotion", "detect_multimodal_emotion"}

\* component c was invoked by the request
Invoked(c) == \E i \in 1..Len(trace) : trace[i] = c

\* component a was invoked, and before component b
InvokedBefore(a, b) ==
  \E i, j \in 1..Len(trace) : i < j /\ trace[i] = a /\ trace[j] = b

\* the steps of the visual path
VisualPath == {"decode_image", "extract_facial_landmarks", "preprocess_face", "classify_visual"}

\* C1: a detectEmotion request whose image decodes and in which the landmark
\* extractor finds no face returns, without raising, the verdict
\* emotion=neutral, confidence=0.5, source=video, landmarks=None.
C1_NoFaceFallback ==
  (/\ req.op = "detect_emotion"
   /\ ImageTable[req.image].decodes
   /\ ~FaceFound(req.image)
   /\ pc \in Terminal)
  => /\ pc = "Done"
     /\ result.kind = "verdict"
     /\ result.emotion = "neutral"
     /\ result.confidence = 500
     /\ result.source = "video"
     /\ result.facial_landmarks = <<>>

\* C1 witness: an image without a face was served by detect_emotion
C1_Witness ==
  /\ req.op = "detect_emotion"
  /\ req.image = "noface"
  /\ pc = "Done"
  /\ Invoked("extract_facial_landmarks")

\* C2: detectEmotion with audio present and no image runs acoustic feature
\* extraction, then the spectrogram builder, then the audio classifier, and
\* returns a verdict with source=audio.
C2_AudioOnlyPath ==
  (/\ req.op = "detect_emotion"
   /\ Falsy(req.image)
   /\ AudioTable[req.audio].decodes
   /\ pc \in Terminal)
  => /\ pc = "Done"
     /\ result.kind = "verdict"
     /\ result.source = "audio"
     /\ InvokedBefore("extract_audio_features", "create_spectrogram")
     /\ InvokedBefore("create_spectrogram", "classify_audio")

\* C3: when image and audio are both supplied and a face is found, the
\* verdict comes from the fusion classifier and has source=multimodal, for
\* detectMultimodalEmotion and for detectEmotion alike.
C3_FusionWhenBoth ==
  (/\ Orchestrated
   /\ ImageTable[req.image].decodes
   /\ AudioTable[req.audio].decodes
   /\ FaceFound(req.image)
   /\ pc = "Done")
  => /\ result.source = "multimodal"
     /\ Invoked("classify_fusion")

\* C4: when image and audio are both supplied and no face is found, the
\* audio is decoded and scored by the audio classifier and the verdict
\* (source=audio) is the one that classifier produces for the audio.
C4_NoFaceAudioFallback ==
  (/\ Orchestrated
   /\ ImageTable[req.image].decodes
   /\ ~FaceFound(req.image)
   /\ AudioTable[req.audio].decodes
   /\ pc = "Done")
  => /\ result.source = "audio"
     /\ InvokedBefore("decode_audio", "classify_audio")
     /\ \E p \in Forward(audio_model, AudioTable[req.audio].pcm) :
          /\ result.emotion = EMOTIONS[ArgMax(p)]
          /\ result.confidence = p[ArgMax(p)]

\* C5: in an image-only detectEmotion request in which a face is found, the
\* face preprocessor runs before the visual classifier, and the returned
\* verdict has source=video, the emotion predicted by the visual classifier
\* and the detected landmarks.
C5_VisualPath ==
  (/\ req.op = "detect_emotion"
   /\ Falsy(req.audio)
   /\ FaceFound(req.image))
  => /\ Invoked("classify_visual") => InvokedBefore("preprocess_face", "classify_visual")
     /\ pc = "Done" =>
          /\ Invoked("classify_visual")
          /\ result.kind = "verdict"
          /\ result.source = "video"
          /\ result.facial_landmarks = ImageTable[req.image].points
          /\ \E p \in Forward(emotion_model, ImageTable[req.image].pix) :
               /\ result.emotion = EMOTIONS[ArgMax(p)]
               /\ result.confidence = p[ArgMax(p)]

\* C5 witness: an image-only request with a face returned a verdict
C5_Witness ==
  /\ req.op = "detect_emotion"
  /\ req.image = "faceA"
  /\ req.audio = "None"
  /\ pc = "Done"
  /\ result.source = "video"
  /\ result.facial_landmarks # <<>>

\* C6: an audio-only detectEmotion request invokes no step of the visual
\* path (image decode, landmark extraction, face preprocessing, visual
\* classifier).
C6_AudioOnlyNoVisual ==
  (/\ req.op = "detect_emotion"
   /\ Falsy(req.image)
   /\ ~Falsy(req.audio))
  => \A i \in 1..Len(trace) : trace[i] \notin VisualPath

\* C6 witness: an audio-only detectEmotion request has run to its end
C6_Witness ==
  /\ req.op = "detect_emotion"
  /\ req.image = "None"
  /\ req.audio = "clipA"
  /\ pc \in Terminal

\* the pipeline stages of the orchestrator in which an exception can arise
PipelineStages == {"decode", "landmarks", "preprocess", "classify"}

\* C7: an exception raised inside a pipeline stage of detectEmotion or
\* detectMultimodalEmotion reaches the caller as a single InferenceError
\* that carries the name of the failing stage, and no verdict is returned.
C7_InferenceError ==
  (/\ Orchestrated
   /\ raised \in PipelineStages
   /\ pc \in Terminal)
  => /\ pc = "Failed"
     /\ result.kind = "error"
     /\ result.error = "InferenceError"
     /\ result.detail = raised

\* C8: a request with an empty or malformed payload, or whose preprocessing
\* fails, ends in an error surfaced to its caller and returns no verdict.
C8_BadPayloadFails ==
  (/\ Orchestrated
   /\ \/ req.image \in {"empty", "malformed"}
      \/ req.audio = "malformed"
      \/ raised = "preprocess"
   /\ pc \in Terminal)
  => /\ pc = "Failed"
     /\ result.kind = "error"

\* C9: once reloadClassifiers has returned or raised, every classifier
\* handle reports loaded or error (never loading or not_loaded), error when
\* its weights are corrupt and loaded when its weights loaded.
C9_StatusAfterReload ==
  reload_response \in {"success", "error"}
  => \A h \in Handles :
       /\ model_status[h] \in {"loaded", "error"}
       /\ files[h] = "corrupt" => model_status[h] = "error"
       /\ (h \in reloaded /\ files[h] # "corrupt") => model_status[h] = "loaded"

\* C10: reloadClassifiers re-executes weight loading for every classifier
\* handle; a load failure of one handle does not leave another un-reloaded.
C10_ReloadsEveryHandle ==
  reload_response \in {"success", "error"} => reloaded = Handles

(* ------------------------- health and status --------------------------- *)
\* `self.emotion_model` is truthy: the attribute holds a module
Truthy(m) == m # NoModel

\* EmotionDetectionService.health_check
health_check ==
  [status |-> IF Truthy(emotion_model) /\ Truthy(multimodal_model) THEN "ready" ELSE "not_ready",
   models_loaded |-> [emotion_cnn |-> Truthy(emotion_model),
                      multimodal_fusion |-> Truthy(multimodal_model),
                      mediapipe |-> face_mesh]]

\* AudioProcessingService.health_check
audio_health_check ==
  [status |-> IF Truthy(audio_model) THEN "ready" ELSE "not_ready",
   model_loaded |-> Truthy(audio_model)]

\* the classifier handle a classifier call of the request goes to
ClassifierOf(c) ==
  CASE c = "classify_visual" -> "emotion_cnn"
    [] c = "classify_fusion" -> "multimodal_fusion"
    [] c = "classify_audio" -> "audio_emotion_cnn"
    [] OTHER -> "none"

ClassifierCalls == {"classify_visual", "classify_fusion", "classify_audio"}

StartupLoadFailed == ctl = "exited"

\* C12: after a classifier load failed at startup the service does not
\* report ready (until a load succeeds), and the status of the failed
\* handle reads error.
C12_NotReadyAfterFailedStartup ==
  StartupLoadFailed
  => /\ health_check.status # "ready"
     /\ \E h \in Handles : model_status[h] = "error"

\* C13: loading a classifier whose weight file is absent does not fail: the
\* handle then holds a freshly initialised classifier in inference mode and
\* its status is loaded, for each of the three handles, at startup and on
\* reload.
C13_AbsentWeightsLoad ==
  [][\A h \in Handles :
       (loadpc = h /\ files[h] = "absent")
       => /\ models'[h].weights = "fresh"
          /\ models'[h].eval
          /\ models'[h].ver = models[h].ver + 1
          /\ model_status'[h] = "loaded"
          /\ ctl' # "exited"
          /\ reload_response' # "error"]_vars

\* C13 witness: a reload has gone through all three handles with every
\* weight file absent
C13_Witness ==
  /\ reload_response = "success"
  /\ \A h \in Handles :
       /\ files[h] = "absent"
       /\ models[h] = [weights |-> "fresh", eval |-> TRUE, ver |-> 2]
       /\ model_status[h] = "loaded"

\* C14: two detectEmotion calls with identical input against the same
\* classifier handles return the same label: the label a call returned is
\* the label of every outcome the same call can have on the same handle.
C14_SameLabel ==
  (/\ req.op = "detect_emotion"
   /\ pc = "Done"
   /\ Invoked("classify_visual"))
  => \A p \in Forward(emotion_model, tensor) : EMOTIONS[ArgMax(p)] = result.emotion

\* C15: the fusion classifier is invoked only in requests in which an
\* image and an audio clip are both present and a face was detected.
C15_FusionOnlyWhenBoth ==
  Invoked("classify_fusion")
  => /\ ~Falsy(req.image)
     /\ ~Falsy(req.audio)
     /\ FaceFound(req.image)

\* C16: every verdict of detectEmotion or detectMultimodalEmotion carries a
\* probability distribution with an entry for each of the seven labels.
C16_VerdictHasDistribution ==
  (Orchestrated /\ pc = "Done" /\ result.kind = "verdict")
  => DOMAIN result.probabilities = {EMOTIONS[i] : i \in 1..Len(EMOTIONS)}

(* ---------------- functions of the pipeline on their own --------------- *)
\* the service state while one function is applied to drawn inputs: the
\* services are constructed and nothing is running
mainVars == <<ctl, loadpc, emotion_service, audio_service, face_mesh, models,
              model_status, files, nreload, reloaded, reload_response,
              req, pc, trace, raised, landmarks, tensor, result>>

Parked ==
  /\ ctl = "boot"
  /\ loadpc = "none"
  /\ emotion_service = FALSE
  /\ audio_service = FALSE
  /\ face_mesh = FALSE
  /\ models = [h \in Handles |-> NoModel]
  /\ model_status = [h \in Handles |-> "not_loaded"]
  /\ files = [h \in Handles |-> "absent"]
  /\ nreload = 0
  /\ reloaded = {}
  /\ reload_response = "none"
  /\ req = NoRequest
  /\ pc = "idle"
  /\ trace = <<>>
  /\ raised = "none"
  /\ landmarks = <<>>
  /\ tensor = 0
  /\ result = NoResult

\* largest tensor content drawn as classifier input
MaxInput == 6

\* the handles a load routine can leave behind: a failed load (fresh, still
\* in training mode), absent weights, loaded weights
LoadOutcomes ==
  {[weights |-> "fresh", eval |-> FALSE, ver |-> v] : v \in 1..(MaxReloads + 1)}
  \cup {[weights |-> w, eval |-> TRUE, ver |-> v] :
          w \in {"fresh", "trained"}, v \in 1..(MaxReloads + 1)}

\* the label list the classifier wrapper of a service uses
LabelsOf(which) == IF which = "audio" THEN AUDIO_EMOTIONS ELSE EMOTIONS

\* the tensors a classifier is called with: scaled pixels are always numbers,
\* a normalised spectrogram can be not-a-number
InitClassifier ==
  /\ Parked
  /\ calc \in {[fn |-> "classifier", which |-> c[1], m |-> m, x |-> c[2],
                probabilities |-> <<>>, done |-> FALSE] :
                 c \in ({"visual", "audio"} \X (0..MaxInput)) \cup {<<"audio", NaN>>},
                 m \in LoadOutcomes}

\* the classifier call and the probability dictionary built from it in
\* _classify_emotion and detect_emotion_from_audio
ClassifierDistribution ==
  /\ calc.fn = "classifier"
  /\ ~calc.done
  /\ \E p \in Forward(calc.m, calc.x) :
       calc' = [calc EXCEPT !.probabilities = ProbDict(LabelsOf(calc.which), p),
                            !.done = TRUE]
  /\ UNCHANGED mainVars

NextClassifier == ClassifierDistribution

SpecClassifier == InitClassifier /\ [][NextClassifier]_vars

\* the fixed seven-label set of the data model
LabelSet == {"angry", "disgust", "fear", "happy", "neutral", "sad", "surprise"}

RECURSIVE SumOver(_, _)
SumOver(f, S) ==
  IF S = {} THEN 0
  ELSE LET l == CHOOSE l \in S : TRUE IN f[l] + SumOver(f, S \ {l})

\* C17: the distribution a classifier (visual or audio) returns has exactly
\* one entry per label of the fixed seven-label set and no other key, its
\* values are non-negative and sum to 1 (1000 per mille), and the label
\* list is the same, in the same order, for both classifiers.
C17_Distribution ==
  (calc.fn = "classifier" /\ calc.done)
  => /\ DOMAIN calc.probabilities = LabelSet
     /\ \A l \in DOMAIN calc.probabilities : calc.probabilities[l] >= 0
     /\ SumOver(calc.probabilities, DOMAIN calc.probabilities) = 1000
     /\ \A m \in LoadOutcomes : \A p \in Forward(m, calc.x) :
          ProbDict(EMOTIONS, p) = ProbDict(AUDIO_EMOTIONS, p)

\* largest value of an entry of a drawn probability vector
MaxProb == 2

InitSelect ==
  /\ Parked
  /\ calc \in {[fn |-> "select", which |-> w, probabilities |-> p,
                emotion |-> "", confidence |-> 0, done |-> FALSE] :
                 w \in {"visual", "audio"}, p \in [1..Len(EMOTIONS) -> 0..MaxProb]}

\* emotion_idx = np.argmax(probabilities); emotion = EMOTIONS[emotion_idx];
\* confidence = float(probabilities[emotion_idx])
SelectEmotion ==
  /\ calc.fn = "select"
  /\ ~calc.done
  /\ calc' = [calc EXCEPT !.emotion = LabelsOf(calc.which)[ArgMax(calc.probabilities)],
                          !.confidence = calc.probabilities[ArgMax(calc.probabilities)],
                          !.done = TRUE]
  /\ UNCHANGED mainVars

NextSelect == SelectEmotion

SpecSelect == InitSelect /\ [][NextSelect]_vars

\* the label order the selection rule is stated in
LabelOrder == <<"angry", "disgust", "fear", "happy", "neutral", "sad", "surprise">>

\* C18: the predicted emotion is the label with the greatest probability,
\* among several greatest the first in the order angry, disgust, fear,
\* happy, neutral, sad, surprise, and the confidence is its probability.
C18_ArgMaxFirst ==
  (calc.fn = "select" /\ calc.done)
  => \E i \in 1..Len(LabelOrder) :
       /\ calc.emotion = LabelOrder[i]
       /\ \A j \in 1..Len(LabelOrder) : calc.probabilities[j] <= calc.probabilities[i]
       /\ \A j \in 1..(i - 1) : calc.probabilities[j] < calc.probabilities[i]
       /\ calc.confidence = calc.probabilities[i]

\* C18 witness: a label was selected from a vector in which three labels
\* share the greatest probability
C18_Witness ==
  /\ calc.fn = "select"
  /\ calc.done
  /\ calc.probabilities = <<1, 2, 0, 2, 1, 2, 0>>
  /\ calc.emotion = "disgust"
  /\ calc.confidence = 2

\* the fixed number of time frames of a spectrogram
n_frames == 128

\* longest drawn clip, in analysis frames
MaxFrames == 130

\* librosa.power_to_db(mel_spec, ref=np.max) of a clip of n analysis frames,
\* as the sequence of its time frames; of the 128 mel bins of a frame two
\* are kept.  The loudest bin is at 0 dB and the others below it; the
\* spectrogram of a silent clip is 0 everywhere.
LogMelSpec(n, silent) ==
  [i \in 1..n |-> IF silent THEN <<0, 0>> ELSE <<0, -(1 + (i % 80))>>]

\* the sum of the entries of the frames lo..hi of a spectrogram
RECURSIVE FrameSum(_, _, _)
FrameSum(s, lo, hi) ==
  IF lo > hi THEN 0
  ELSE IF lo = hi THEN s[lo][1] + s[lo][2]
  ELSE FrameSum(s, lo, (lo + hi) \div 2) + FrameSum(s, (lo + hi) \div 2 + 1, hi)

\* the sum of all entries of a spectrogram
Total(s) == FrameSum(s, 1, Len(s))

\* np.std(s) = 0: every entry equals the mean total / N
ZeroStd(s, total) == \A i \in 1..Len(s) : \A b \in 1..2 : 2 * Len(s) * s[i][b] = total

\* (log_mel_spec - np.mean(log_mel_spec)) / np.std(log_mel_spec), entry by
\* entry.  The entries are kept as the exact numerators N * x - sum(x)
\* (N the number of entries), i.e. in units of std / N; when the standard
\* deviation is zero every entry is 0/0.
Normalize(s) ==
  LET total == Total(s)
      zero_std == ZeroStd(s, total)
  IN [i \in 1..Len(s) |->
        [b \in 1..2 |-> IF zero_std THEN NaN ELSE 2 * Len(s) * s[i][b] - total]]

\* a slip of FixTimeAxis: a long spectrogram is left as it is
FixTimeAxisSlip(s) ==
  IF Len(s) > n_frames THEN s
  ELSE s \o [i \in 1..(n_frames - Len(s)) |-> <<0, 0>>]

\* if shape[1] > 128: log_mel_spec[:, :128]
\* else: np.pad(log_mel_spec, ((0, 0), (0, 128 - shape[1])), mode='constant')
FixTimeAxis(s) ==
  IF Len(s) > n_frames THEN SubSeq(s, 1, n_frames)
  ELSE s \o [i \in 1..(n_frames - Len(s)) |-> <<0, 0>>]

InitSpectrogram ==
  /\ Parked
  /\ calc \in {[fn |-> "spectrogram", frames |-> n, log_mel_spec |-> LogMelSpec(n, silent),
                normalized |-> <<>>, spectrogram |-> <<>>, done |-> FALSE] :
                 n \in 1..MaxFrames, silent \in BOOLEAN}

\* the normalisation and resize steps of _create_spectrogram; no statement
\* of it raises (a division by zero of numpy arrays only warns)
_create_spectrogram ==
  /\ calc.fn = "spectrogram"
  /\ ~calc.done
  /\ LET log_mel_spec == Normalize(calc.log_mel_spec)
     IN calc' = [calc EXCEPT !.normalized = log_mel_spec,
                             !.spectrogram = FixTimeAxis(log_mel_spec),
                             !.done = TRUE]
  /\ UNCHANGED mainVars

NextSpectrogram == _create_spectrogram

SpecSpectrogram == InitSpectrogram /\ [][NextSpectrogram]_vars

\* C19: whatever the number of analysis frames of the clip, the spectrogram
\* returned has exactly 128 time frames: the first 128 frames of a longer
\* input, or the frames of a shorter input followed by zeros.
C19_FixedTimeAxis ==
  (calc.fn = "spectrogram" /\ calc.done)
  => /\ Len(calc.spectrogram) = 128
     /\ \A i \in 1..128 :
          calc.spectrogram[i] = IF i <= calc.frames THEN calc.normalized[i] ELSE <<0, 0>>

\* C19 witness: a clip longer than 128 frames went through the builder
C19_Witness ==
  /\ calc.fn = "spectrogram"
  /\ calc.done
  /\ calc.frames > 128
  /\ calc.log_mel_spec[128] # calc.log_mel_spec[calc.frames]
  /\ calc.spectrogram[128] = calc.normalized[128]

\* the spectrogram has zero standard deviation: all its entries are equal
Constant(s) == \A i, j \in 1..Len(s) : s[i] = s[j] /\ s[i][1] = s[i][2]

\* C24: when the log-mel spectrogram of a clip has zero standard deviation
\* (silent, all-equal input) the spectrogram builder divides by a small
\* epsilon instead of zero and returns a fixed-shape tensor whose values
\* are all finite.
C24_SilentClipFinite ==
  (calc.fn = "spectrogram" /\ calc.done /\ Constant(calc.log_mel_spec))
  => /\ Len(calc.spectrogram) = 128
     /\ \A i \in 1..Len(calc.spectrogram) : \A b \in 1..2 : calc.spectrogram[i][b] # NaN

\* image sides drawn: multiples of 40 pixels up to 40 * MaxDim
MaxDim == 2

\* bounding-box corners drawn: multiples of 10 pixels from -20 to 10 * MaxGrid
MaxGrid == 10

\* bounding-box widths and heights drawn
BoxSizes == {0, 10, 40}

\* start and stop of the slice a[start:stop] of an axis of length n: a
\* negative index counts from the end, and both are clipped to 0..n
SliceIndex(n, i) == IF i < 0 THEN Max(0, i + n) ELSE Min(n, i)

\* the extent of image[y:y+h, x:x+w]; slicing never raises
Crop(W, H, r) ==
  [w |-> Max(0, SliceIndex(W, r.x + r.w) - SliceIndex(W, r.x)),
   h |-> Max(0, SliceIndex(H, r.y + r.h) - SliceIndex(H, r.y))]

InitCrop ==
  /\ Parked
  /\ calc \in {[fn |-> "crop", W |-> 40 * a, H |-> 40 * b,
                bbox |-> [x |-> 10 * i, y |-> 10 * j, width |-> bw, height |-> bh],
                rect |-> <<>>, face_region |-> <<>>, done |-> FALSE] :
                 a \in 1..MaxDim, b \in 1..MaxDim,
                 i \in (-2)..MaxGrid, j \in (-2)..MaxGrid,
                 bw \in BoxSizes, bh \in BoxSizes}

\* the padding and cropping steps of _preprocess_face_for_emotion
CropFace ==
  /\ calc.fn = "crop"
  /\ ~calc.done
  /\ calc' = [calc EXCEPT !.rect = CropRect(calc.W, calc.H, calc.bbox),
                          !.face_region = Crop(calc.W, calc.H, CropRect(calc.W, calc.H, calc.bbox)),
                          !.done = TRUE]
  /\ UNCHANGED mainVars

NextCrop == CropFace

SpecCrop == InitCrop /\ [][NextCrop]_vars

\* C20: for every image size and bounding box the padded crop rectangle
\* satisfies 0 <= x, 0 <= y, x + w <= image width and y + h <= image height,
\* so the crop reads no pixel outside the image.
C20_CropWithinImage ==
  (calc.fn = "crop" /\ calc.done)
  => /\ 0 <= calc.rect.x
     /\ 0 <= calc.rect.y
     /\ calc.rect.x + calc.rect.w <= calc.W
     /\ calc.rect.y + calc.rect.h <= calc.H
     /\ calc.face_region.w <= calc.W
     /\ calc.face_region.h <= calc.H

\* C20 witness: a box extending past the right and bottom edges was cropped
C20_Witness ==
  /\ calc.fn = "crop"
  /\ calc.done
  /\ calc.bbox.x + calc.bbox.width > calc.W
  /\ calc.bbox.y + calc.bbox.height > calc.H
  /\ calc.bbox.x < calc.W
  /\ calc.rect.x + calc.rect.w = calc.W
  /\ calc.rect.w > 0
  /\ calc.face_region.w = calc.rect.w

(* ------------------------ frame of the requests ------------------------ *)
\* the step belongs to an inference request: it is taken inside a request,
\* or it is the arrival of one
RequestStep == ~Quiescent \/ pc' = "AwaitingInput"

\* C21: a step of an inference request, successful or failed, leaves every
\* classifier handle and every handle status unchanged; after startup the
\* handles and statuses change only inside the reload operation.
C21_InferenceLeavesHandles ==
  [][/\ RequestStep => UNCHANGED <<models, model_status>>
     /\ (models' # models \/ model_status' # model_status)
        => (ctl \in {"startup", "reload"} /\ UNCHANGED requestVars)]_vars

\* C21 witness: a request was scored by the visual classifier after a
\* reload, and the handles are as the reload left them
C21_Witness ==
  /\ nreload = 1
  /\ reload_response = "success"
  /\ pc = "Done"
  /\ Invoked("classify_visual")
  /\ \A h \in Handles : models[h].eval /\ model_status[h] = "loaded"

(* --------------------------- handle lifecycle -------------------------- *)
\* the status changes of the lifecycle not_loaded -> loading -> loaded | error
\* (a reload takes loaded and error back to loading)
LifecycleSteps ==
  {<<"not_loaded", "loading">>, <<"loading", "loaded">>, <<"loading", "error">>,
   <<"loaded", "loading">>, <<"error", "loading">>}

\* C23: the status of every classifier handle changes only along
\* not_loaded -> loading -> loaded | error: never from not_loaded straight to
\* loaded or error, and a reload takes a loaded or error handle through
\* loading again.
C23_StatusLifecycle ==
  [][\A h \in Handles :
       model_status'[h] # model_status[h]
       => <<model_status[h], model_status'[h]>> \in LifecycleSteps]_vars

\* C27: when loading the weights of a handle fails during reload_models,
\* the classifier in the handle is still the one that was in place before
\* the reload, and the status of the handle becomes error.
C27_FailedReloadKeepsClassifier ==
  [][\A h \in Handles :
       (ctl = "reload" /\ loadpc = h /\ LoadFails(h))
       => /\ models'[h] = models[h]
          /\ model_status'[h] = "error"]_vars

(* --------------------------- preprocessing errors ---------------------- *)
\* the crop rectangle of the request in progress
RequestCrop ==
  CropRect(ImageTable[req.image].W, ImageTable[req.image].H, BoundingBox(landmarks))

\* C25: when the crop rectangle has zero area after padding and clamping
\* (width <= 0 or height <= 0), the face preprocessor fails with
\* PreprocessError and the classifier is not invoked for the request.
C25_ZeroAreaCrop ==
  (/\ Invoked("preprocess_face")
   /\ EmptyCrop(RequestCrop)
   /\ pc \in Terminal)
  => /\ pc = "Failed"
     /\ raised = "preprocess"
     /\ result.error = "PreprocessError"
     /\ \A c \in ClassifierCalls : ~Invoked(c)

\* C26: the landmark extractor returns None only when no face is detected
\* in a well-formed image; when the face mesh cannot process the image
\* (structurally invalid image) the extractor fails with PreprocessError
\* instead of returning None.
C26_LandmarksNoneOnlyNoFace ==
  (Invoked("extract_facial_landmarks") /\ pc \in Terminal)
  => /\ landmarks = <<>> => (ImageTable[req.image].mesh = "noface" /\ raised = "none")
     /\ ImageTable[req.image].mesh = "raises"
        => (pc = "Failed" /\ result.error = "PreprocessError")

(* --------------------------- request progress -------------------------- *)
\* a step inside the handler of the request being served
HandlerStep ==
  \/ BeginRequest
  \/ DecodeImage
  \/ ExtractLandmarks
  \/ PreprocessFace
  \/ ClassifyVisual
  \/ ClassifyFusion
  \/ DecodeAudio
  \/ ExtractAudioFeatures
  \/ CreateSpectrogram
  \/ ClassifyAudio

\* a handler is straight-line CPU-bound code on the event loop: once a
\* request is being served its next step is eventually taken
FairSpec == Spec /\ WF_vars(HandlerStep)

\* the stage of the request lifecycle a handler position belongs to, by rank
StageRank(p) ==
  CASE p = "AwaitingInput" -> 1
    [] p = "Decoding" -> 2
    [] p \in {"Landmarks", "Preprocess", "AudioFeatures", "Spectrogram"} -> 3
    [] p = "Classifying" -> 4
    [] p \in Terminal -> 5
    [] OTHER -> 0

\* C22: a request moves through AwaitingInput, Decoding, FeatureExtraction,
\* Classifying in this order and never back to an earlier stage, it ends in
\* exactly one of Done (a verdict is returned) or Failed (an error is
\* raised), and no request stays in a non-terminal stage forever.
C22_StageOrder ==
  /\ [][(~Quiescent) => (StageRank(pc') >= StageRank(pc) /\ req' = req)]_vars
  /\ [](pc = "Done" => result.kind = "verdict")
  /\ [](pc = "Failed" => result.kind = "error")
  /\ (~Quiescent) ~> (pc \in Terminal)

\* C22 witness: a request went through decoding, feature extraction and
\* classification and is Done
C22_Witness ==
  /\ pc = "Done"
  /\ trace = <<"decode_image", "extract_facial_landmarks", "preprocess_face", "classify_visual">>
  /\ result.kind = "verdict"

(* ------------- the orchestrator called on a service object ------------- *)
\* the handle a load routine leaves when it starts from an empty handle
FirstLoad(f) ==
  IF f = "ok" THEN EvalMode(WithWeights(FreshModel(NoModel))) ELSE EvalMode(FreshModel(NoModel))

\* detect_emotion and detect_multimodal_emotion are methods of a service
\* object: they can be called after initialize() has completed, or on an
\* object that was only constructed (face_mesh and the models are None)
InitDirect ==
  /\ ctl = "up"
  /\ loadpc = "none"
  /\ emotion_service = TRUE
  /\ audio_service = TRUE
  /\ files \in [Handles -> {"absent", "ok"}]
  /\ face_mesh \in BOOLEAN
  /\ models = [h \in Handles |-> IF face_mesh THEN FirstLoad(files[h]) ELSE NoModel]
  /\ model_status = [h \in Handles |-> IF face_mesh THEN "loaded" ELSE "not_loaded"]
  /\ nreload = 0
  /\ reloaded = {}
  /\ reload_response = "none"
  /\ req = NoRequest
  /\ pc = "idle"
  /\ trace = <<>>
  /\ raised = "none"
  /\ landmarks = <<>>
  /\ tensor = 0
  /\ result = NoResult
  /\ calc = NoCalc

NextDirect ==
  \/ \E op \in {"detect_emotion", "detect_multimodal_emotion"}, img \in Images, aud \in Audios :
       Submit(op, img, aud)
  \/ BeginRequest
  \/ DecodeImage
  \/ ExtractLandmarks
  \/ PreprocessFace
  \/ ClassifyVisual
  \/ ClassifyFusion

SpecDirect == InitDirect /\ [][NextDirect]_vars

emotion_weights(emotion) ==
  CASE emotion = "happy" -> 1000
    [] emotion = "neutral" -> 600
    [] emotion = "surprise" -> 700
    [] emotion = "sad" -> 200
    [] emotion = "angry" -> 100
    [] emotion = "fear" -> 100
    [] emotion = "disgust" -> 200
    [] OTHER -> 500

high_stress_emotions == {"angry", "fear", "disgust"}
positive_emotions == {"happy", "surprise"}

\* longest emotion history drawn
MaxHistory == 2

\* the entries of a drawn history.  confidence and energy are per mille and
\* include values outside 0..1; audio_features is <<>> (none) or holds the
\* energy.  A timestamp is an ISO string inside the time window
\* ("recent"), before it ("old"), or one with a UTC offset ("aware"), whose
\* comparison with the naive cutoff raises.  numeric = FALSE is an entry
\* whose confidence is not a number.
HistoryEntries ==
  {[emotion |-> e, confidence |-> c, numeric |-> TRUE, timestamp |-> t,
    audio_features |-> a, facial_landmarks |-> FALSE] :
     e \in {"happy", "angry", "mystery"}, c \in {-500, 0, 800, 3000},
     t \in {"recent", "old"}, a \in {<<>>, <<-200>>, <<900>>}}
  \cup {[emotion |-> "sad", confidence |-> 800, numeric |-> TRUE, timestamp |-> "aware",
         audio_features |-> <<>>, facial_landmarks |-> TRUE],
        [emotion |-> "sad", confidence |-> 800, numeric |-> TRUE, timestamp |-> "recent",
         audio_features |-> <<>>, facial_landmarks |-> TRUE],
        [emotion |-> "fear", confidence |-> 0, numeric |-> FALSE, timestamp |-> "recent",
         audio_features |-> <<>>, facial_landmarks |-> FALSE],
        [emotion |-> "fear", confidence |-> 0, numeric |-> FALSE, timestamp |-> "old",
         audio_features |-> <<>>, facial_landmarks |-> FALSE]}

RECURSIVE SeqSum(_)
SeqSum(s) == IF s = <<>> THEN 0 ELSE Head(s) + SeqSum(Tail(s))

\* np.mean of a non-empty list, rounded down to a per-mille value
Mean(s) == SeqSum(s) \div Len(s)

RECURSIVE Extend(_)
\* the list built by a loop that extends it with each entry's indicators
Extend(ss) == IF ss = <<>> THEN <<>> ELSE Head(ss) \o Extend(Tail(ss))

\* _filter_recent_emotions: entries with timestamp >= cutoff; an entry whose
\* timestamp cannot be compared is skipped
_filter_recent_emotions(history) == SelectSeq(history, LAMBDA e : e.timestamp = "recent")

\* a loop over the entries multiplies or averages a confidence that is not
\* a number: TypeError
Unscorable(emotions) == \E i \in 1..Len(emotions) : ~emotions[i].numeric

\* _calculate_emotional_score
_calculate_emotional_score(emotions) ==
  LET total_score == SeqSum([i \in 1..Len(emotions) |->
                               emotion_weights(emotions[i].emotion) * emotions[i].confidence])
      total_weight == SeqSum([i \in 1..Len(emotions) |-> emotions[i].confidence])
  IN IF emotions = <<>> THEN 500
     ELSE IF total_weight > 0 THEN total_score \div total_weight ELSE 500

PhysicalIndicators(e) ==
  (IF e.facial_landmarks THEN <<700>> ELSE <<>>)
  \o (IF e.audio_features # <<>> THEN <<Min(e.audio_features[1] * 2, 1000)>> ELSE <<>>)

\* _calculate_physical_score
_calculate_physical_score(emotions) ==
  LET physical_indicators == Extend([i \in 1..Len(emotions) |-> PhysicalIndicators(emotions[i])])
  IN IF physical_indicators = <<>> THEN 600 ELSE Mean(physical_indicators)

StressIndicator(e) ==
  IF e.emotion \in high_stress_emotions THEN e.confidence
  ELSE IF e.emotion \in positive_emotions THEN 100
  ELSE 300

\* _calculate_stress_score
_calculate_stress_score(emotions) ==
  IF emotions = <<>> THEN 300
  ELSE Mean([i \in 1..Len(emotions) |-> StressIndicator(emotions[i])])

EnergyIndicators(e) ==
  (IF e.audio_features # <<>> THEN <<e.audio_features[1]>> ELSE <<>>)
  \o (IF e.emotion \in {"happy", "surprise", "angry"} THEN <<800>>
      ELSE IF e.emotion \in {"sad", "fear"} THEN <<300>>
      ELSE <<500>>)

\* _calculate_energy_score
_calculate_energy_score(emotions) ==
  IF emotions = <<>> THEN 500
  ELSE Mean(Extend([i \in 1..Len(emotions) |-> EnergyIndicators(emotions[i])]))

\* a slip of Clip: the score is returned as computed
ClipSlip(x) == x

\* np.clip(x, 0, 1)
Clip(x) == Max(0, Min(1000, x))

\* _default_wellness_response
_default_wellness_response ==
  [overall |-> 500, emotional |-> 500, physical |-> 500, stress |-> 300, energy |-> 500,
   trend |-> "no_data"]

\* the try body of calculate_wellness_score raises: a component score over
\* the recent entries, or _analyze_trends over the whole history (two or
\* more entries), meets a confidence that is not a number
WellnessRaises(history) ==
  \/ Unscorable(_filter_recent_emotions(history))
  \/ Len(history) >= 2 /\ Unscorable(history)

\* _analyze_trends: the first half of the history against the second
_analyze_trends(history) ==
  IF Len(history) < 2 THEN "insufficient_data"
  ELSE LET half == Len(history) \div 2
           recent_score == _calculate_emotional_score(SubSeq(history, 1, half))
           older_score == _calculate_emotional_score(SubSeq(history, half + 1, Len(history)))
       IN IF recent_score > older_score + 100 THEN "improving"
          ELSE IF recent_score < older_score - 100 THEN "declining"
          ELSE "stable"

\* calculate_wellness_score
WellnessScore(history) ==
  LET recent_emotions == _filter_recent_emotions(history)
      emotional_score == _calculate_emotional_score(recent_emotions)
      physical_score == _calculate_physical_score(recent_emotions)
      stress_score == _calculate_stress_score(recent_emotions)
      energy_score == _calculate_energy_score(recent_emotions)
      overall_score == (emotional_score * 4 + physical_score * 2
                        + (1000 - stress_score) * 3 + energy_score) \div 10
  IN IF history = <<>> THEN _default_wellness_response
     ELSE IF recent_emotions = <<>> THEN _default_wellness_response
     ELSE IF WellnessRaises(history) THEN _default_wellness_response
     ELSE [overall |-> Clip(overall_score), emotional |-> Clip(emotional_score),
           physical |-> Clip(physical_score), stress |-> Clip(stress_score),
           energy |-> Clip(energy_score), trend |-> _analyze_trends(history)]

InitWellness ==
  /\ Parked
  /\ calc \in {[fn |-> "wellness", emotion_history |-> h, response |-> <<>>, done |-> FALSE] :
                 h \in UNION {[1..n -> HistoryEntries] : n \in 0..MaxHistory}}

calculate_wellness_score ==
  /\ calc.fn = "wellness"
  /\ ~calc.done
  /\ calc' = [calc EXCEPT !.response = WellnessScore(calc.emotion_history), !.done = TRUE]
  /\ UNCHANGED mainVars

NextWellness == calculate_wellness_score

SpecWellness == InitWellness /\ [][NextWellness]_vars

LowerCase ==
  [A |-> "a", B |-> "b", C |-> "c", D |-> "d", E |-> "e", F |-> "f", G |-> "g", H |-> "h", I |-> "i", J |-> "j", K |-> "k", L |-> "l", M |-> "m", N |-> "n",
   O |-> "o", P |-> "p", Q |-> "q", R |-> "r", S |-> "s", T |-> "t", U |-> "u", V |-> "v", W |-> "w", X |-> "x", Y |-> "y", Z |-> "z"]

\* message.lower()
Lower(m) == [i \in 1..Len(m) |-> IF m[i] \in DOMAIN LowerCase THEN LowerCase[m[i]] ELSE m[i]]

\* `keyword in message`: the keyword occurs as a substring
In(keyword, m) ==
  \E i \in 0..(Len(m) - Len(keyword)) : SubSeq(m, i + 1, i + Len(keyword)) = keyword

\* crisis_keywords of _generate_response_text
crisis_keywords ==
  {<<"h", "u", "r", "t", " ", "m", "y", "s", "e", "l", "f">>,
   <<"s", "u", "i", "c", "i", "d", "e">>, <<"k", "i", "l", "l">>,
   <<"d", "i", "e">>, <<"e", "n", "d", " ", "i", "t">>}

tired_keywords == {<<"t", "i", "r", "e", "d">>, <<"e", "x", "h", "a", "u", "s", "t", "e", "d">>, <<"s", "l", "e", "e", "p">>}

stress_keywords ==
  {<<"s", "t", "r", "e", "s", "s", "e", "d">>, <<"o", "v", "e", "r", "w", "h", "e", "l", "m", "e", "d">>,
   <<"p", "r", "e", "s", "s", "u", "r", "e">>}

lonely_keywords == {<<"l", "o", "n", "e", "l", "y">>, <<"a", "l", "o", "n", "e">>, <<"i", "s", "o", "l", "a", "t", "e", "d">>}

\* a slip of KeywordRules: the crisis keywords are looked for last
KeywordRulesSlip ==
  <<[keywords |-> tired_keywords, text |-> "tired"],
    [keywords |-> stress_keywords, text |-> "stress"],
    [keywords |-> lonely_keywords, text |-> "lonely"],
    [keywords |-> crisis_keywords, text |-> "crisis_helpline"]>>

\* the keyword checks of _generate_response_text in the order of the code,
\* each with the text it returns
KeywordRules ==
  <<[keywords |-> crisis_keywords, text |-> "crisis_helpline"],
    [keywords |-> tired_keywords, text |-> "tired"],
    [keywords |-> stress_keywords, text |-> "stress"],
    [keywords |-> lonely_keywords, text |-> "lonely"]>>

\* the keyword check r matches the lower-cased message
Matches(r, message_lower) == \E keyword \in KeywordRules[r].keywords : In(keyword, message_lower)

\* the emotions that have response templates
TemplateEmotions == {"happy", "sad", "angry", "fear", "neutral", "surprise", "disgust"}

\* the texts _generate_response_text can return: the text of the first
\* keyword check that matches, else random.choice of the three templates of
\* the emotion (of neutral for an emotion without templates)
_generate_response_text(message, emotion) ==
  LET message_lower == Lower(message)
      hits == {r \in 1..Len(KeywordRules) : Matches(r, message_lower)}
  IN IF hits # {}
     THEN {KeywordRules[CHOOSE r \in hits : \A q \in hits : r <= q].text}
     ELSE {<<(IF emotion \in TemplateEmotions THEN emotion ELSE "neutral"), k>> : k \in 1..3}

\* _generate_wellness_suggestions: the list the suggestions are taken from
_generate_wellness_suggestions(emotion, wellness_score) ==
  IF emotion \in {"sad", "angry", "fear"} THEN "stress"
  ELSE IF wellness_score < 400 THEN "low_energy"
  ELSE IF emotion = "happy" /\ wellness_score > 700 THEN "positive"
  ELSE "general"

\* _determine_response_tone
_determine_response_tone(emotion, support_level) ==
  IF support_level = "high" THEN "compassionate"
  ELSE IF emotion \in {"happy", "surprise"} THEN "encouraging"
  ELSE IF emotion \in {"sad", "fear"} THEN "gentle"
  ELSE IF emotion = "angry" THEN "calming"
  ELSE "supportive"

\* the words messages are made of
Vocabulary ==
  {<<"S", "u", "i", "c", "i", "d", "e">>,
   <<"k", "i", "l", "l">>,
   <<"s", "k", "i", "l", "l", "s">>,
   <<"d", "i", "e">>,
   <<"h", "u", "r", "t">>,
   <<"m", "y", "s", "e", "l", "f">>,
   <<"e", "n", "d">>,
   <<"i", "t">>,
   <<"t", "i", "r", "e", "d">>,
   <<"s", "t", "r", "e", "s", "s", "e", "d">>,
   <<"a", "l", "o", "n", "e">>,
   <<"f", "i", "n", "e">>}

\* most words of a drawn message
MaxWords == 2

RECURSIVE Join(_)
\* the words of a message separated by blanks
Join(words) ==
  IF words = <<>> THEN <<>>
  ELSE IF Len(words) = 1 THEN words[1]
  ELSE words[1] \o <<" ">> \o Join(Tail(words))

Messages == {Join(ws) : ws \in UNION {[1..n -> Vocabulary] : n \in 0..MaxWords}}

\* emotional_context: None (<<>>), or a dict with current_emotion and
\* wellness_score (per mille); a key that is absent reads as its default
EmotionalContexts ==
  {<<>>} \cup {[current_emotion |-> e, wellness_score |-> w] :
                 e \in {"happy", "sad", "neutral", "mystery"}, w \in {200, 500, 900}}

InitConversation ==
  /\ Parked
  /\ calc \in {[fn |-> "conversation", message |-> m, emotional_context |-> c,
                response |-> <<>>, done |-> FALSE] :
                 m \in Messages, c \in EmotionalContexts}

\* generate_response.  With a context whose wellness_score is a number no
\* statement of the try body raises, so the fallback response of the except
\* branch is not returned for these inputs.
generate_response ==
  /\ calc.fn = "conversation"
  /\ ~calc.done
  /\ LET current_emotion == IF calc.emotional_context # <<>>
                            THEN calc.emotional_context.current_emotion ELSE "neutral"
         wellness_score == IF calc.emotional_context # <<>>
                           THEN calc.emotional_context.wellness_score ELSE 500
         support_level ==
           IF current_emotion \in {"sad", "angry", "fear"} \/ wellness_score < 400 THEN "high"
           ELSE IF current_emotion \in {"happy", "surprise"} /\ wellness_score > 700 THEN "low"
           ELSE "medium"
     IN \E response_text \in _generate_response_text(calc.message, current_emotion) :
          calc' = [calc EXCEPT
                     !.response = [response |-> response_text,
                                   suggested_actions |->
                                     _generate_wellness_suggestions(current_emotion, wellness_score),
                                   emotional_tone |->
                                     _determine_response_tone(current_emotion, support_level),
                                   support_level |-> support_level],
                     !.done = TRUE]
  /\ UNCHANGED mainVars

NextConversation == generate_response

SpecConversation == InitConversation /\ [][NextConversation]_vars

\* the crisis keywords: hurt myself, suicide, kill, die, end it
CrisisWords ==
  {<<"h", "u", "r", "t", " ", "m", "y", "s", "e", "l", "f">>,
   <<"s", "u", "i", "c", "i", "d", "e">>, <<"k", "i", "l", "l">>,
   <<"d", "i", "e">>, <<"e", "n", "d", " ", "i", "t">>}

====
